---------------------------- MODULE Spec2Model ----------------------------
(***************************************************************************)
(* State-caching and command-dispatch layer of the Samsung air conditioner *)
(* accessory (class SamsungAirco, promise variant): _getDeviceState is the *)
(* cached read path ("get"), _executeSetCommand the write path ("send"),   *)
(* execRequest the transport (a curl child process).                       *)
(*                                                                         *)
(* Every await in the code is a suspension point: a call is modelled by a  *)
(* Start action (the code up to the await), the transport's answer, and a  *)
(* Resume action (the code after the await).                               *)
(*                                                                         *)
(* The last part models the callback variant (src/index.js): its handlers  *)
(* and the completion callbacks they call when exec's callback runs.       *)
(***************************************************************************)
EXTENDS Integers, Sequences, FiniteSets

\* ----------------------------------------------------------------- bounds
NumGetters == 2          \* concurrent calls of _getDeviceState
NumSenders == 2          \* concurrent calls of _executeSetCommand
MaxGets    == 2          \* get() calls issued in one behaviour
MaxSends   == 2          \* send() calls issued in one behaviour
StartTime  == 3000       \* Date.now() at construction (ms, model scale)
Horizon    == 2000       \* how far the clock runs after construction (ms)
NumCalls   == 2          \* handler invocations of the callback variant

Getters == 1..NumGetters
Senders == 1..NumSenders
Invocations == 1..NumCalls
MaxTime == StartTime + Horizon
TickSteps == {1000}      \* clock advances between steps (ms)

\* -------------------------------------------------------- program values
\* A device snapshot as JSON.parse returns it: JS null (jq prints "null" when
\* .Devices[deviceIndex] is absent) or a device object; ver is the number of
\* writes the device had applied when the snapshot was taken.
Null == [present |-> FALSE, ver |-> 0]
DeviceState(v) == [present |-> TRUE, ver |-> v]
Truthy(s) == s.present

\* What a call settles with: a returned value, a thrown error, or nothing yet.
NoResult == [kind |-> "none", state |-> Null, err |-> ""]
Value(s) == [kind |-> "value", state |-> s, err |-> ""]
Resolved == [kind |-> "ok", state |-> Null, err |-> ""]
Thrown(e) == [kind |-> "error", state |-> Null, err |-> e]
StateUnavailable == "Could not retrieve device state."

\* What exec's callback gets when the child process exits: (error, stdout).
NoAnswer == [kind |-> "none", body |-> Null, err |-> ""]
ExecError(e) == [kind |-> "execError", body |-> Null, err |-> e]
BadJson == [kind |-> "badJson", body |-> Null, err |-> ""]
Stdout(s) == [kind |-> "stdout", body |-> s, err |-> ""]
TransportErrors == {"NetworkError", "AuthError"}
FetchFailed(r) == r.kind \in {"execError", "badJson"}

\* A curl command as buildCurlCommand writes it: the method, the device the
\* request addresses (the index in the jq filter of a GET, the first segment
\* of the endpoint of a PUT), the rest of the endpoint, and the -d data.
NoCommand == [method |-> "", device |-> 0, path |-> "", data |-> ""]

VARIABLES
    deviceIndex,    \* this.deviceIndex
    cacheDuration,  \* this.cacheDuration
    cache,          \* this.cache
    lastCacheTime,  \* this.lastCacheTime
    now,            \* Date.now()
    dev,            \* the device: number of writes it has applied
    gpc,            \* per get slot: "ready" | "awaiting"
    t0,             \* per get slot: the const now of the call in flight
    lo,             \* per get slot: the device's version when exec was called
    gctx,           \* per get slot: history at the start of the call in flight
    spc,            \* per send slot: "ready" | "awaiting"
    sid,            \* per send slot: issue number of the call in flight
    nGets,          \* get() calls issued so far
    nSends,         \* send() calls issued so far
    hung,           \* the transport has stopped answering: no child exits
    wire,           \* issue numbers of the writes handed to exec, in order
    hist,           \* history of the run (observation only)
    last,           \* the last step a call took (observation only)
    reading,        \* the last property read off a device state
    calls,          \* callback variant: per invocation, handler and callbacks
    pushed          \* callback variant: value pushed with updateValue to
                    \* CurrentHeaterCoolerState

vars == <<deviceIndex, cacheDuration, cache, lastCacheTime, now, dev, gpc, t0,
          lo, gctx, spc, sid, nGets, nSends, hung, wire, hist, last, reading,
          calls, pushed>>

\* What no step of the cache and dispatch layer changes.
fixed == <<deviceIndex, cacheDuration, reading, calls, pushed>>

\* ---------------------------------------------------------------- history
\* ackVer:   device version acknowledged by the successful send()s so far
\* sendSinceGet: a send() has completed successfully and no get() started since
\* justInvalidated: the last step of the program was an invalidation
\* everReturned: some get() has returned a device state
\* everFetched:  some fetch has succeeded and brought a device state
\* stored:   what the last successful fetch stored, Null after a successful
\*           send() completed since (or when nothing was fetched yet)
\* storedAt: Date.now() at the start of the get() whose fetch stored it
\* prev:     the get() whose fetch last replaced the cache with a device state,
\*           valid while no send() was issued or completed since
NoPrev == [valid |-> FALSE, at |-> 0, state |-> Null]
InitHist == [ackVer |-> 0, sendSinceGet |-> FALSE, justInvalidated |-> FALSE,
             everReturned |-> FALSE, everFetched |-> FALSE,
             stored |-> Null, storedAt |-> 0, prev |-> NoPrev]
NoCtx == [afterSend |-> FALSE, need |-> 0, hadSuccess |-> FALSE]

\* last.op: "none" | "hit" (a get() served from the cache) | "fetch" (a get()
\* that called exec) | "got" (a get() settled after its fetch) | "send" (a
\* send() that called exec) | "sent" (a send() settled). args: the endpoint
\* and data a send() was called with; handed: the command given to exec. at: Date.now() when the get() started; cond .. warmState:
\* what held then;
\* answer: what exec answered; storedBefore, fetchedBefore: hist.stored and
\* hist.everFetched before the step; result: what the call settled with.
NoLast == [op |-> "none", at |-> 0, cond |-> "none", afterInv |-> FALSE,
           afterSend |-> FALSE, need |-> 0, hadSuccess |-> FALSE,
           warm |-> FALSE, warmState |-> Null,
           answer |-> NoAnswer, storedBefore |-> Null, fetchedBefore |-> FALSE,
           result |-> NoResult, args |-> NoCommand, handed |-> NoCommand]

NoReading == [prop |-> "none", state |-> Null, value |-> Null]

\* An invocation slot of the callback variant before a handler is called in
\* it: error is the error exec reported, callbacks lists the calls made to
\* the completion callback.
NoCall == [handler |-> "none", arg |-> 0, pc |-> "idle", error |-> "",
           callbacks |-> <<>>]

\* The cache as a caller finds it, from the definitions of section 3 of the
\* design: absent, fresh (younger than the TTL) or stale.
CacheCond == IF ~Truthy(cache) THEN "absent"
             ELSE IF now - lastCacheTime < cacheDuration THEN "fresh"
             ELSE "stale"

Warm == hist.prev.valid /\ now - hist.prev.at < cacheDuration

\* The accessory as its constructor leaves it, for a configured device index
\* and a cache duration.
InitWith(index, duration) ==
    /\ deviceIndex = index
    /\ cacheDuration = duration
    /\ cache = Null
    /\ lastCacheTime = 0
    /\ now = StartTime
    /\ dev = 0
    /\ gpc = [g \in Getters |-> "ready"]
    /\ t0 = [g \in Getters |-> 0]
    /\ lo = [g \in Getters |-> 0]
    /\ gctx = [g \in Getters |-> NoCtx]
    /\ spc = [s \in Senders |-> "ready"]
    /\ sid = [s \in Senders |-> 0]
    /\ nGets = 0
    /\ nSends = 0
    /\ hung = FALSE
    /\ wire = <<>>
    /\ hist = InitHist
    /\ last = NoLast
    /\ reading = NoReading
    /\ calls = [i \in Invocations |-> NoCall]
    /\ pushed = 0

\* config.deviceIndex || 0 and the 2000 ms of the constructor.
Init == InitWith(0, 2000)

\* ------------------------------------------------------------------ clock
Tick ==
    /\ \E d \in TickSteps : now + d <= MaxTime /\ now' = now + d
    /\ UNCHANGED <<cache, lastCacheTime, dev, gpc, t0, lo, gctx, spc, sid,
                   nGets, nSends, hung, wire, hist, last>>
    /\ UNCHANGED fixed

\* ------------------------------------------------------- buildCurlCommand
\* Faulty variant: the data is left out of the command.
BuildCurlCommandNoData(endpoint, method, data) ==
    [method |-> method, device |-> endpoint.device, path |-> endpoint.path,
     data |-> ""]

\* The command for an endpoint, a method and the data (null: no -d).
BuildCurlCommand(endpoint, method, data) ==
    [method |-> method, device |-> endpoint.device, path |-> endpoint.path,
     data |-> data]

\* The endpoint of the fetch: /devices piped through jq '.Devices[deviceIndex]'.
FetchEndpoint == [device |-> deviceIndex, path |-> ""]

\* ------------------------------------------------------- _getDeviceState
\* Faulty variants of the freshness test: the comparison turned round, and
\* the boundary taken as fresh.
IsFreshInverted(c, last_, t) == Truthy(c) /\ (t - last_ > cacheDuration)

IsFreshInclusive(c, last_, t) == Truthy(c) /\ (t - last_ <= cacheDuration)

\* if (this.cache && (now - this.lastCacheTime < this.cacheDuration))
IsFresh(c, last_, t) == Truthy(c) /\ (t - last_ < cacheDuration)

\* Faulty variants of the catch block: it always throws, and it always
\* returns this.cache.
FallbackThrows(c) == Thrown(StateUnavailable)

FallbackPlaceholder(c) == Value(c)

\* catch (error): the last cached state if there is one, else the throw
Fallback(c) == IF Truthy(c) THEN Value(c) ELSE Thrown(StateUnavailable)

\* Concurrent calls take the get slots lowest free first.
FreeGetSlot(g) == gpc[g] = "ready" /\ \A h \in Getters : h < g => gpc[h] # "ready"

\* The call up to its await: the cached state, or the exec of the fetch.
GetStart(g) ==
    /\ FreeGetSlot(g)
    /\ nGets < MaxGets
    /\ nGets' = nGets + 1
    /\ IF IsFresh(cache, lastCacheTime, now)
       THEN /\ UNCHANGED <<gpc, t0, lo, gctx>>
            /\ last' = [NoLast EXCEPT
                          !.op = "hit", !.at = now, !.cond = CacheCond,
                          !.afterInv = hist.justInvalidated,
                          !.afterSend = hist.sendSinceGet,
                          !.need = hist.ackVer,
                          !.hadSuccess = hist.everReturned,
                          !.warm = Warm,
                          !.warmState = IF Warm THEN hist.prev.state ELSE Null,
                          !.result = Value(cache)]
            /\ hist' = [hist EXCEPT !.sendSinceGet = FALSE,
                                    !.justInvalidated = FALSE,
                                    !.everReturned = @ \/ Truthy(cache)]
       ELSE /\ gpc' = [gpc EXCEPT ![g] = "awaiting"]
            /\ t0' = [t0 EXCEPT ![g] = now]
            /\ lo' = [lo EXCEPT ![g] = dev]
            /\ gctx' = [gctx EXCEPT ![g] = [afterSend |-> hist.sendSinceGet,
                                            need |-> hist.ackVer,
                                            hadSuccess |-> hist.everReturned]]
            /\ last' = [NoLast EXCEPT
                          !.op = "fetch", !.at = now, !.cond = CacheCond,
                          !.afterInv = hist.justInvalidated,
                          !.afterSend = hist.sendSinceGet,
                          !.need = hist.ackVer,
                          !.hadSuccess = hist.everReturned,
                          !.warm = Warm,
                          !.warmState = IF Warm THEN hist.prev.state ELSE Null,
                          !.handed = BuildCurlCommand(FetchEndpoint, "GET", "")]
            /\ hist' = [hist EXCEPT !.sendSinceGet = FALSE,
                                    !.justInvalidated = FALSE]
    /\ UNCHANGED <<cache, lastCacheTime, now, dev, spc, sid, nSends, hung, wire>>
    /\ UNCHANGED fixed

\* What the curl | jq child of a fetch can answer: exec reports an error, or
\* stdout is not JSON, or it is the device at deviceIndex (null when there is
\* none) as the device was at some moment since exec was called.
FetchAnswers(g) ==
    {ExecError("NetworkError"), BadJson, Stdout(Null)}
        \cup {Stdout(DeviceState(v)) : v \in lo[g]..dev}

\* Faulty variants of the timestamp: set whatever the fetch gave, and read
\* from the clock after the await.
StampAfterFetchAlways(old, start, r) == start

StampAfterFetchAtExit(old, start, r) == IF FetchFailed(r) THEN old ELSE now

\* this.lastCacheTime once the fetch has answered r: the const now of the
\* call's first line after the try block's tail, untouched by the catch block.
StampAfterFetch(old, start, r) == IF FetchFailed(r) THEN old ELSE start

\* this.cache once the fetch has answered r.
CacheAfterFetch(c, r) == IF FetchFailed(r) THEN c ELSE r.body

\* The child exits and the call goes on after its await: the try block's
\* tail, or the catch block.
GetResume(g) ==
    /\ gpc[g] = "awaiting"
    /\ ~hung
    /\ \E r \in FetchAnswers(g) :
         LET res == IF FetchFailed(r) THEN Fallback(cache) ELSE Value(r.body)
         IN
         /\ cache' = CacheAfterFetch(cache, r)
         /\ lastCacheTime' = StampAfterFetch(lastCacheTime, t0[g], r)
         /\ IF FetchFailed(r)
            THEN /\ hist' = [hist EXCEPT
                               !.justInvalidated = FALSE,
                               !.everReturned = @ \/ res.kind = "value"]
            ELSE /\ hist' = [hist EXCEPT
                               !.justInvalidated = FALSE,
                               !.everFetched = @ \/ Truthy(r.body),
                               !.everReturned = @ \/ Truthy(r.body),
                               !.stored = r.body,
                               !.storedAt = t0[g],
                               !.prev = IF Truthy(r.body)
                                        THEN [valid |-> TRUE, at |-> t0[g],
                                              state |-> r.body]
                                        ELSE NoPrev]
         /\ last' = [NoLast EXCEPT
                       !.op = "got",
                       !.afterSend = gctx[g].afterSend,
                       !.need = gctx[g].need,
                       !.hadSuccess = gctx[g].hadSuccess,
                       !.answer = r,
                       !.storedBefore = hist.stored,
                       !.fetchedBefore = hist.everFetched,
                       !.result = res]
    /\ gpc' = [gpc EXCEPT ![g] = "ready"]
    /\ t0' = [t0 EXCEPT ![g] = 0]
    /\ lo' = [lo EXCEPT ![g] = 0]
    /\ gctx' = [gctx EXCEPT ![g] = NoCtx]
    /\ UNCHANGED <<now, dev, spc, sid, nGets, nSends, hung, wire>>
    /\ UNCHANGED fixed

\* ---------------------------------------------------- _executeSetCommand
\* await this.execRequest(command): exec is called inside the Promise
\* executor, synchronously with the call.
\* Faulty variant: the command is put in front of the ones already handed over.
ExecRequestLifo(w, id) == <<id>> \o w

ExecRequest(w, id) == Append(w, id)

\* Faulty variant: the cache is left as it is.
InvalidateNothing(c) == c

\* this.cache = null
Invalidate(c) == Null

\* Faulty variant: the rejection is caught and the call resolves.
SendOutcomeSwallowed(r) == Resolved

\* What the call settles with once its exec has answered r: the rejection of
\* execRequest passes through the await unchanged.
SendOutcome(r) == IF r.kind = "execError" THEN Thrown(r.err) ELSE Resolved

\* Faulty variant: the invalidation sits in a finally block.
CacheAfterSendFinally(c, res) == Invalidate(c)

\* this.cache once the call has settled with res: the throw leaves the
\* function before the invalidation.
CacheAfterSend(c, res) == IF res.kind = "error" THEN c ELSE Invalidate(c)

\* The write projections of the property setters: the endpoint and the data
\* they call _executeSetCommand with.
SetActive(power) == [device |-> 0, path |-> "", data |-> power]
SetTargetTemperature(value) ==
    [device |-> 0, path |-> "/temperatures/0", data |-> value]
SetSwingMode(mode) == [device |-> 0, path |-> "/mode", data |-> mode]
SetTargetHeaterCoolerState == [device |-> 0, path |-> "/mode", data |-> "Cool"]

\* The send() calls of a behaviour.
Commands == {SetActive("On"), SetTargetHeaterCoolerState}

\* Concurrent calls take the send slots lowest free first.
FreeSendSlot(s) == spc[s] = "ready" /\ \A h \in Senders : h < s => spc[h] # "ready"

\* The call up to its await: the command is built and handed to exec.
SendStart(s) ==
    /\ FreeSendSlot(s)
    /\ nSends < MaxSends
    /\ \E c \in Commands :
         last' = [NoLast EXCEPT
                    !.op = "send", !.args = c,
                    !.handed = BuildCurlCommand(
                                   [device |-> c.device, path |-> c.path],
                                   "PUT", c.data)]
    /\ nSends' = nSends + 1
    /\ sid' = [sid EXCEPT ![s] = nSends + 1]
    /\ wire' = ExecRequest(wire, nSends + 1)
    /\ spc' = [spc EXCEPT ![s] = "awaiting"]
    /\ hist' = [hist EXCEPT !.justInvalidated = FALSE, !.prev = NoPrev]
    /\ UNCHANGED <<cache, lastCacheTime, now, dev, gpc, t0, lo, gctx, nGets,
                   hung>>
    /\ UNCHANGED fixed

\* What the curl child of a write can answer: an error, or the reply of the
\* device that has applied the write (body: the device from then on; the code
\* does not read stdout).
WriteAnswers == {ExecError(e) : e \in TransportErrors}
                    \cup {Stdout(DeviceState(dev + 1))}

\* The child exits and the call goes on after its await: the log line and the
\* invalidation, or the throw.
SendResume(s) ==
    /\ spc[s] = "awaiting"
    /\ ~hung
    /\ \E r \in WriteAnswers :
         LET res == SendOutcome(r) IN
         /\ dev' = IF r.kind = "stdout" THEN dev + 1 ELSE dev
         /\ cache' = CacheAfterSend(cache, res)
         /\ IF res.kind = "error"
            THEN /\ hist' = [hist EXCEPT !.justInvalidated = FALSE]
            ELSE /\ hist' = [hist EXCEPT
                               !.justInvalidated = TRUE,
                               !.sendSinceGet = TRUE,
                               !.stored = Null,
                               !.prev = NoPrev,
                               !.ackVer = IF r.kind = "stdout" THEN dev + 1 ELSE @]
         /\ last' = [NoLast EXCEPT !.op = "sent", !.answer = r, !.result = res]
    /\ spc' = [spc EXCEPT ![s] = "ready"]
    /\ sid' = [sid EXCEPT ![s] = 0]
    /\ UNCHANGED <<lastCacheTime, now, gpc, t0, lo, gctx, nGets, nSends, hung,
                   wire>>
    /\ UNCHANGED fixed

\* -------------------------------------------------------------- transport
\* The device stops answering: from now on no curl child exits. exec is
\* called without a timeout option and curl without --max-time, so nothing
\* on the program's side ends a child that waits.
TransportHangs ==
    /\ ~hung
    /\ hung' = TRUE
    /\ UNCHANGED <<cache, lastCacheTime, now, dev, gpc, t0, lo, gctx, spc, sid,
                   nGets, nSends, wire, hist, last>>
    /\ UNCHANGED fixed

\* ---------------------------------------------------------- specification
Next ==
    \/ Tick
    \/ \E g \in Getters : GetStart(g)
    \/ \E g \in Getters : GetResume(g)
    \/ \E s \in Senders : SendStart(s)
    \/ \E s \in Senders : SendResume(s)

\* The safety properties are checked over a transport that may answer at any
\* time; a transport that stops answering only takes steps away.
Spec == Init /\ [][Next]_vars

\* The program with a transport that may stop answering. While the transport
\* answers, every child process exits and the event loop runs the
\* continuation of its call.
NextHang == Next \/ TransportHangs

FairSpec ==
    /\ Init /\ [][NextHang]_vars
    /\ \A g \in Getters : WF_vars(GetResume(g))
    /\ \A s \in Senders : WF_vars(SendResume(s))

\* ------------------------------------------------------------------ claims
GetStarted == last.op \in {"hit", "fetch"}
InFlight == {g \in Getters : gpc[g] = "awaiting"}

\* C1 (as claimed): the first get() that starts after a send() has completed
\* successfully performs a live fetch, and what it returns is not a state
\* fetched before that write.
C1_WriteInvalidates ==
    /\ (GetStarted /\ last.afterSend) => last.op = "fetch"
    /\ (last.op = "got" /\ last.afterSend /\ last.result.kind = "value"
            /\ Truthy(last.result.state))
         => last.result.state.ver >= last.need

\* C2 (as claimed): at no time is more than one fetch in flight.
C2_SingleFlight == Cardinality(InFlight) <= 1

\* C3 (as claimed): once some get() has returned a state, no later get()
\* fails: a failing fetch is answered with the last fetched state.
C3_NeverFailsAfterSuccess ==
    (last.op = "got" /\ last.hadSuccess) => last.result.kind # "error"

\* C3 (amended): a get() whose fetch fails returns the state the last
\* successful fetch stored if that state is a device and no send() has
\* completed successfully since; otherwise it throws the state-unavailable
\* error. A get() throws in no other case.
C3_FallbackUnlessInvalidated ==
    /\ (last.op = "got" /\ FetchFailed(last.answer))
         => last.result = IF Truthy(last.storedBefore)
                          THEN Value(last.storedBefore)
                          ELSE Thrown(StateUnavailable)
    /\ (last.op \in {"hit", "got"} /\ last.result.kind = "error")
         => /\ FetchFailed(last.answer)
            /\ ~Truthy(last.storedBefore)
            /\ last.result.err = StateUnavailable

\* C3 witness: a get() started after another had returned a state, its fetch
\* failed, and it returned the stored state.
C3_Witness ==
    /\ last.op = "got" /\ FetchFailed(last.answer) /\ last.hadSuccess
    /\ Truthy(last.storedBefore) /\ last.result = Value(last.storedBefore)

\* C4: a send() whose write the transport fails throws that very error, and
\* every send() has handed exactly one write to exec (no retry).
C4_WriteFailurePropagates ==
    /\ (last.op = "sent" /\ last.answer.kind = "execError")
         => last.result = Thrown(last.answer.err)
    /\ Len(wire) = nSends

\* C4 witness: a send() has failed with the transport's AuthError.
C4_Witness ==
    /\ last.op = "sent" /\ last.answer = ExecError("AuthError")
    /\ last.result.kind = "error"

\* C5: a get() issued less than the TTL after the start of the get() whose
\* successful fetch last filled the cache, with no send() issued or completed
\* in between, calls no exec and returns the state that fetch brought.
C5_Freshness ==
    (GetStarted /\ last.warm)
        => last.op = "hit" /\ last.result = Value(last.warmState)

\* C5 witness: such a get() was served from the cache some time after the
\* fetch.
C5_Witness ==
    /\ last.op = "hit" /\ last.warm /\ hist.prev.valid
    /\ last.at > hist.prev.at

\* C6: a get() that finds a cached state whose timestamp is at least the TTL
\* old calls exec for a new fetch.
C6_StalenessTrigger ==
    (GetStarted /\ last.cond = "stale") => last.op = "fetch"

\* C6 witness: a get() found a stale state, exactly TTL old, and is fetching.
C6_Witness ==
    /\ last.op = "fetch" /\ last.cond = "stale"
    /\ last.at - lastCacheTime = cacheDuration

\* C7: a get() that immediately follows an invalidation calls exec for a
\* fetch.
C7_InvalidateThenRead ==
    (GetStarted /\ last.afterInv) => last.op = "fetch"

\* C7 witness: such a get() is fetching although the last successful fetch
\* is younger than the TTL.
C7_Witness ==
    /\ last.op = "fetch" /\ last.afterInv /\ hist.everFetched
    /\ last.at - lastCacheTime < cacheDuration

\* C8: when a fetch fails before any fetch has brought a device state, the
\* get() throws the state-unavailable error and returns nothing.
C8_NoPriorData ==
    (last.op = "got" /\ FetchFailed(last.answer) /\ ~last.fetchedBefore)
        => last.result = Thrown(StateUnavailable)

\* C8 witness: the first get() of the run has failed that way.
C8_Witness ==
    /\ last.op = "got" /\ FetchFailed(last.answer) /\ ~hist.everFetched
    /\ nGets = 1 /\ last.result.kind = "error"

\* C9: the writes reach exec in the order their send() calls were issued,
\* each as soon as its send() is called.
C9_WriteOrdering == wire = [i \in 1..nSends |-> i]

\* C9 witness: two send() calls are in flight together with a get().
C9_Witness ==
    /\ Len(wire) = 2 /\ InFlight # {}
    /\ \E s1, s2 \in Senders : sid[s1] = 1 /\ sid[s2] = 2

\* C10 (as claimed): every get() and every send() eventually settles, also
\* when the transport never answers.
C10_AlwaysSettles ==
    /\ \A g \in Getters : (gpc[g] = "awaiting") ~> (gpc[g] = "ready")
    /\ \A s \in Senders : (spc[s] = "awaiting") ~> (spc[s] = "ready")

\* C11 (as claimed): a fetch whose response holds no device at deviceIndex is
\* a failed fetch: the get() returns the state stored before (or throws the
\* state-unavailable error when there is none) and the cache keeps that
\* state; the absent device is neither stored nor returned.
C11_AbsentDeviceIsFailure ==
    (last.op = "got" /\ last.answer = Stdout(Null))
        => /\ last.result = IF Truthy(last.storedBefore)
                            THEN Value(last.storedBefore)
                            ELSE Thrown(StateUnavailable)
           /\ cache = last.storedBefore

\* C12: every send() hands exec one PUT command that carries the endpoint and
\* the data it was called with; the writes handed over are as many as the
\* send() calls, one for each call and none twice.
C12_OneWritePerSend ==
    /\ last.op = "send"
         => last.handed = [method |-> "PUT", device |-> last.args.device,
                           path |-> last.args.path, data |-> last.args.data]
    /\ Len(wire) = nSends
    /\ \A i, j \in 1..Len(wire) : i # j => wire[i] # wire[j]
    /\ \A s \in Senders :
         spc[s] = "awaiting" => \E i \in 1..Len(wire) : wire[i] = sid[s]

\* C12 witness: a second send() has handed its command over while the first
\* is still in flight.
C12_Witness ==
    /\ last.op = "send" /\ last.args = SetTargetHeaterCoolerState
    /\ last.handed.data = "Cool" /\ nSends = 2
    /\ \A s \in Senders : spc[s] = "awaiting"

\* ---------------------------------------------------------------------------
\* Read projections (the second half of each getter, after _getDeviceState).
\* ---------------------------------------------------------------------------

\* JavaScript values a getter can return.
Num(n) == [t |-> "number", v |-> n]
Undefined == [t |-> "undefined", v |-> 0]

\* The HAP enumerations the getters read their results from.
Active == [ACTIVE |-> Num(1), INACTIVE |-> Num(0)]
SwingMode == [SWING_ENABLED |-> Num(1), SWING_DISABLED |-> Num(0)]
CurrentHeaterCoolerState ==
    [INACTIVE |-> Num(0), IDLE |-> Num(1), HEATING |-> Num(2), COOLING |-> Num(3)]
TargetHeaterCoolerState == [AUTO |-> Num(0), HEAT |-> Num(1), COOL |-> Num(2)]

\* enum.name in JavaScript: a property the object lacks reads as undefined.
Member(enum, name) == IF name \in DOMAIN enum THEN enum[name] ELSE Undefined

coolModes == {"CoolClean", "Cool", "Dry", "DryClean", "Auto", "Wind"}

\* Device snapshots: the fields of the parsed response the getters read.
Modes == coolModes \cup {"Heat", "Fan"}
Snapshots ==
    [power : {"On", "Off"}, mode0 : Modes, nano : BOOLEAN,
     current : {0, 27, 50}, desired : {18, 24, 30}]

getActive(state) ==
    IF state.power = "On" THEN Member(Active, "ACTIVE")
                          ELSE Member(Active, "INACTIVE")
getCurrentTemperature(state) == Num(state.current)
getTargetTemperature(state) == Num(state.desired)
getSwingMode(state) ==
    IF state.nano THEN Member(SwingMode, "SWING_ENABLED")
                  ELSE Member(SwingMode, "SWING_DISABLED")
getCurrentHeaterCoolerState(state) ==
    IF state.mode0 \in coolModes
    THEN Member(CurrentHeaterCoolerState, "COOLING")
    ELSE Member(CurrentHeaterCoolerState, "IDLE")
getTargetHeaterCoolerState(state) ==
    IF state.mode0 \in coolModes
    THEN Member(TargetHeaterCoolerState, "COOL")
    ELSE Member(TargetHeaterCoolerState, "IDLE")

Properties ==
    {"Active", "CurrentTemperature", "CoolingThresholdTemperature",
     "SwingMode", "CurrentHeaterCoolerState", "TargetHeaterCoolerState"}

Projection(prop, state) ==
    CASE prop = "Active" -> getActive(state)
      [] prop = "CurrentTemperature" -> getCurrentTemperature(state)
      [] prop = "CoolingThresholdTemperature" -> getTargetTemperature(state)
      [] prop = "SwingMode" -> getSwingMode(state)
      [] prop = "CurrentHeaterCoolerState" -> getCurrentHeaterCoolerState(state)
      [] prop = "TargetHeaterCoolerState" -> getTargetHeaterCoolerState(state)

\* The values each characteristic accepts: its enumeration, narrowed by the
\* props getServices registers.
Members(enum) == {enum[k] : k \in DOMAIN enum}
LegalValues(prop) ==
    CASE prop = "Active" -> Members(Active)
      [] prop = "CurrentTemperature" -> {Num(n) : n \in 0..50}
      [] prop = "CoolingThresholdTemperature" -> {Num(n) : n \in 18..30}
      [] prop = "SwingMode" -> Members(SwingMode)
      [] prop = "CurrentHeaterCoolerState" -> Members(CurrentHeaterCoolerState)
      [] prop = "TargetHeaterCoolerState" -> {Num(2)}

\* A getter applied to the snapshot _getDeviceState handed it.
Read(prop, state) ==
    /\ reading' = [prop |-> prop, state |-> state,
                   value |-> Projection(prop, state)]
    /\ UNCHANGED <<deviceIndex, cacheDuration, cache, lastCacheTime, now, dev,
                   gpc, t0, lo, gctx, spc, sid, nGets, nSends, hung, wire,
                   hist, last, calls, pushed>>

ReadAny == \E prop \in Properties, state \in Snapshots : Read(prop, state)

ProjSpec == Init /\ [][ReadAny]_vars

\* C13 (as claimed): every read projection of every snapshot returns a
\* defined value of its property's legal set; the operating-mode projections
\* return the cooling value for a cool-like modes[0] and a legal non-cooling
\* value of the same property otherwise.
C13_ProjectionsLegal ==
    reading.prop # "none"
        => /\ reading.value # Undefined
           /\ reading.value \in LegalValues(reading.prop)
           /\ reading.prop = "CurrentHeaterCoolerState"
                => (reading.value = CurrentHeaterCoolerState.COOLING
                       <=> reading.state.mode0 \in coolModes)
           /\ reading.prop = "TargetHeaterCoolerState"
                => (reading.value = TargetHeaterCoolerState.COOL
                       <=> reading.state.mode0 \in coolModes)

\* Steps in which a pending get() or send() takes its transport answer.
GetResumes == \E g \in Getters : gpc[g] = "awaiting" /\ gpc'[g] = "ready"
SendResumes == \E s \in Senders : spc[s] = "awaiting" /\ spc'[s] = "ready"

\* C14: a get() whose fetch failed and that returns the cached state instead
\* leaves the cached state and the cache timestamp as they were before the
\* step; an entry that was stale stays stale, so the next get() fetches again.
C14_FallbackLeavesEntry ==
    [][(GetResumes /\ FetchFailed(last'.answer) /\ last'.result.kind = "value")
          => /\ cache' = cache
             /\ lastCacheTime' = lastCacheTime
             /\ ~IsFresh(cache, lastCacheTime, now)
                  => ~IsFresh(cache', lastCacheTime', now')]_vars

\* C14 witness: a get() has just returned a stale cached state after its
\* fetch failed.
C14_Witness ==
    /\ last.op = "got" /\ FetchFailed(last.answer)
    /\ last.result = Value(cache)
    /\ CacheCond = "stale"

\* C15 (as claimed): after a successful send() the cached state is absent and
\* the cache timestamp is back at its initial value.
C15_InvalidationClearsBoth ==
    (last.op = "sent" /\ last.result.kind = "ok")
        => ~Truthy(cache) /\ lastCacheTime = 0

\* C16 (as claimed): the cache timestamp changes only in a step in which a
\* fetch succeeded and replaced the cached state with a device snapshot.
C16_StampOnlyOnSnapshot ==
    [][lastCacheTime' # lastCacheTime
          => /\ GetResumes
             /\ last'.answer.kind = "stdout"
             /\ Truthy(last'.answer.body)
             /\ cache' = last'.answer.body]_vars

\* The accessory configured for the first or for the second device of the
\* response (config.deviceIndex).
DeviceIndexes == {0, 1}
InitConfig == \E i \in DeviceIndexes : InitWith(i, 2000)
ConfigSpec == InitConfig /\ [][Next]_vars

\* C17 (as claimed): for every configured device index, the fetch of a get()
\* selects that device of the response and the write of a send() addresses
\* that same device.
C17_SameDeviceIndex ==
    /\ last.op = "fetch" => last.handed.device = deviceIndex
    /\ last.op = "send" => last.handed.device = deviceIndex

\* The accessory with its cacheDuration field at zero.
ZeroTtlSpec == InitWith(0, 0) /\ [][Next]_vars

\* C18: with a cache duration of zero no get() is served from the cache:
\* every get() that starts hands a GET to the transport, also one that starts
\* at the instant of the previous successful fetch.
C18_ZeroTtlAlwaysFetches ==
    /\ last.op # "hit"
    /\ GetStarted => /\ last.op = "fetch"
                     /\ last.handed = BuildCurlCommand(FetchEndpoint, "GET", "")

\* C18 witness: a get() fetches although the cache holds a snapshot stamped
\* with the very instant at which this get() starts.
C18_Witness ==
    /\ cacheDuration = 0
    /\ last.op = "fetch" /\ last.handed.method = "GET"
    /\ Truthy(cache) /\ lastCacheTime = last.at /\ last.at = now

\* C19: a send() whose write fails leaves the cached state and the cache
\* timestamp as they were before the step, so an entry that was fresh still
\* serves the next get() within the cache duration.
C19_FailedSendLeavesEntry ==
    [][(SendResumes /\ last'.result.kind = "error")
          => /\ cache' = cache
             /\ lastCacheTime' = lastCacheTime
             /\ IsFresh(cache, lastCacheTime, now)
                  => IsFresh(cache', lastCacheTime', now')]_vars

\* C19 witness: a send() has just failed while the cache holds a fresh state.
C19_Witness ==
    /\ last.op = "sent" /\ last.result.kind = "error"
    /\ CacheCond = "fresh"

\* C20: a cached state that is present is the state the last successful
\* fetch stored and the timestamp is the time at which that fetch was issued;
\* a cache hit returns that state and starts less than the cache duration
\* after that issue time.
C20_StampIsIssueTime ==
    /\ Truthy(cache) => cache = hist.stored /\ lastCacheTime = hist.storedAt
    /\ last.op = "hit"
         => /\ last.result = Value(hist.stored)
            /\ hist.storedAt <= last.at
            /\ last.at - hist.storedAt < cacheDuration

\* C20 witness: a get() is served from the cache some time after the fetch
\* that filled it was issued.
C20_Witness ==
    /\ last.op = "hit" /\ Truthy(cache) /\ last.result = Value(cache)
    /\ lastCacheTime = hist.storedAt /\ hist.storedAt < last.at

\* C21 (as claimed): the cache timestamp never decreases: every step leaves
\* it at a value greater than or equal to the one before, so a fetch that
\* completes late never replaces the entry of a fetch issued after it.
C21_StampMonotonic ==
    [][lastCacheTime' >= lastCacheTime]_vars

\* ---------------------------------------------------------------------------
\* Callback variant (src/index.js): every handler builds a curl command,
\* passes it to execRequest with a function of (error, stdout, stderr), and
\* that function calls the handler's completion callback. Strings are
\* sequences of one-character strings.
\* ---------------------------------------------------------------------------

NaN == [t |-> "NaN", v |-> 0]

On == <<"O", "n">>
Off == <<"O", "f", "f">>
Cool == <<"C", "o", "o", "l">>
Clean == <<"C", "l", "e", "a", "n">>
CoolClean == Cool \o Clean
Dry == <<"D", "r", "y">>
DryClean == Dry \o Clean
Auto == <<"A", "u", "t", "o">>
Wind == <<"W", "i", "n", "d">>
Heat == <<"H", "e", "a", "t">>

\* What jq prints for a JSON string, for a number and for an absent value.
JqString(w) == <<"\"">> \o w \o <<"\"", "\n">>
JqNumber(digits) == digits \o <<"\n">>
JqNull == <<"n", "u", "l", "l", "\n">>

\* String.prototype.substr(start, length), start counted from 0.
Substr(s, start, length) ==
    IF length <= 0 \/ start >= Len(s) THEN <<>>
    ELSE SubSeq(s, start + 1,
                IF start + length < Len(s) THEN start + length ELSE Len(s))

\* this.response = stdout; this.response.substr(1, this.response.length - 3)
Unquote(stdout) == Substr(stdout, 1, Len(stdout) - 3)

Digits == <<"0", "1", "2", "3", "4", "5", "6", "7", "8", "9">>
IsDigit(c) == \E d \in 1..Len(Digits) : Digits[d] = c
DigitValue(c) == (CHOOSE d \in 1..Len(Digits) : Digits[d] = c) - 1

RECURSIVE ParseDigits(_, _)
ParseDigits(s, acc) ==
    IF s = <<>> \/ ~IsDigit(Head(s)) THEN acc
    ELSE ParseDigits(Tail(s), acc * 10 + DigitValue(Head(s)))

\* parseInt(stdout): the leading digits, NaN when there are none.
ParseInt(s) ==
    IF s = <<>> \/ ~IsDigit(Head(s)) THEN NaN ELSE Num(ParseDigits(s, 0))

\* 3 - parseInt(stdout)
ThreeMinus(x) == IF x = NaN THEN NaN ELSE Num(3 - x.v)

\* The arguments of one call of a completion callback: callback(error),
\* callback() and callback(null, value).
CallbackError(e) == [error |-> e, value |-> Undefined]
CallbackDone == [error |-> "", value |-> Undefined]
CallbackValue(v) == [error |-> "", value |-> v]

\* The handlers getServices registers, one of each shape (the heating
\* threshold, swing mode and lock handlers repeat the shapes of the cooling
\* threshold and Active handlers).
GetHandlers ==
    {"getActive", "getCurrentTemperature", "getRotationSpeed",
     "getCurrentHeaterCoolerState", "getCoolingUpOrDwTemperature"}
SetHandlers ==
    {"setActive", "setRotationSpeed", "setCurrentHeaterCoolerState",
     "setCoolingUpOrDwTemperature"}
Handlers == GetHandlers \cup SetHandlers

\* The values HomeKit passes to a handler: none to a get handler, a value of
\* the characteristic's registered range to a set handler.
Args(h) ==
    CASE h = "setActive" -> {Active.INACTIVE.v, Active.ACTIVE.v}
      [] h = "setRotationSpeed" -> 0..3
      [] h = "setCurrentHeaterCoolerState" ->
             {TargetHeaterCoolerState[k].v : k \in DOMAIN TargetHeaterCoolerState}
      [] h = "setCoolingUpOrDwTemperature" -> {18, 30}
      [] OTHER -> {0}

\* Whether the handler reaches its this.execRequest call: the set handlers
\* switch on the value and only their case labels issue a request.
Issues(h, arg) ==
    CASE h = "setActive" -> arg \in {Active.ACTIVE.v, Active.INACTIVE.v}
      [] h = "setRotationSpeed" -> arg \in {3, 1, 2}
      [] h = "setCurrentHeaterCoolerState" ->
             arg \in {TargetHeaterCoolerState.AUTO.v,
                      TargetHeaterCoolerState.HEAT.v,
                      TargetHeaterCoolerState.COOL.v}
      [] OTHER -> TRUE

\* updateValue calls a handler makes before it calls execRequest.
PushedAtCall(h, arg, p) ==
    IF h = "setCurrentHeaterCoolerState"
    THEN CASE arg = TargetHeaterCoolerState.AUTO.v -> 1
           [] arg = TargetHeaterCoolerState.HEAT.v -> 2
           [] arg = TargetHeaterCoolerState.COOL.v -> 3
           [] OTHER -> p
    ELSE p

\* What the device's answer to the handler's request can print on stdout.
Stdouts(h) ==
    CASE h = "getActive" -> {JqString(On), JqString(Off), JqNull}
      [] h = "getCurrentHeaterCoolerState" ->
             {JqString(Cool), JqString(CoolClean), JqString(Dry),
              JqString(Auto), JqString(Heat), JqNull}
      [] h \in {"getCurrentTemperature", "getCoolingUpOrDwTemperature"} ->
             {JqNumber(<<"2", "4">>), JqNull}
      [] h = "getRotationSpeed" -> {JqNumber(<<"1">>), JqNull}
      [] OTHER -> {<<>>}

\* What exec hands its callback: an error, or null and the child's stdout.
ExecResults(h) ==
    {[error |-> e, stdout |-> <<>>] : e \in TransportErrors}
        \cup {[error |-> "", stdout |-> o] : o \in Stdouts(h)}

Outcome(cbs, p) == [callbacks |-> cbs, pushed |-> p]

\* The functions the handlers pass to execRequest, applied to exec's error
\* and stdout: the calls they make to the completion callback, in order, and
\* the value they leave pushed to CurrentHeaterCoolerState.
Cb_getCoolingUpOrDwTemperature(error, stdout, p) ==
    IF error # "" THEN Outcome(<<CallbackError(error)>>, p)
    ELSE Outcome(<<CallbackValue(ParseInt(stdout))>>, p)

\* callback(null, body) follows the if/else, so it also runs after
\* callback(error); body is still undefined then.
Cb_getCurrentTemperature(error, stdout, p) ==
    IF error # ""
    THEN Outcome(<<CallbackError(error), CallbackValue(Undefined)>>, p)
    ELSE Outcome(<<CallbackValue(ParseInt(stdout))>>, p)

Cb_getRotationSpeed(error, stdout, p) ==
    IF error # ""
    THEN Outcome(<<CallbackError(error), CallbackValue(Undefined)>>, p)
    ELSE Outcome(<<CallbackValue(ThreeMinus(ParseInt(stdout)))>>, p)

\* The final else only logs.
Cb_getActive(error, stdout, p) ==
    IF error # "" THEN Outcome(<<CallbackError(error)>>, p)
    ELSE LET response == Unquote(stdout) IN
         IF response = Off THEN Outcome(<<CallbackValue(Active.INACTIVE)>>, p)
         ELSE IF response = On
              THEN Outcome(<<CallbackValue(Active.ACTIVE)>>, p)
              ELSE Outcome(<<>>, p)

Cb_getCurrentHeaterCoolerState(error, stdout, p) ==
    IF error # "" THEN Outcome(<<CallbackError(error)>>, p)
    ELSE LET response == Unquote(stdout) IN
         IF response = CoolClean \/ response = Cool
         THEN Outcome(<<CallbackValue(CurrentHeaterCoolerState.COOLING)>>, 3)
         ELSE IF response = DryClean \/ response = Dry
         THEN Outcome(<<CallbackValue(CurrentHeaterCoolerState.HEATING)>>, 2)
         ELSE IF response = Auto \/ response = Wind
         THEN Outcome(<<CallbackValue(CurrentHeaterCoolerState.IDLE)>>, 1)
         ELSE Outcome(<<>>, p)

\* callback(null, temp)
Cb_setCoolingUpOrDwTemperature(temp, error, stdout, p) ==
    IF error # "" THEN Outcome(<<CallbackError(error)>>, p)
    ELSE Outcome(<<CallbackValue(Num(temp))>>, p)

\* setActive, setRotationSpeed and setCurrentHeaterCoolerState pass the same
\* function in every case of their switch.
Cb_set(error, stdout, p) ==
    IF error # "" THEN Outcome(<<CallbackError(error)>>, p)
    ELSE Outcome(<<CallbackDone>>, p)

Completion(h, arg, error, stdout, p) ==
    CASE h = "getCoolingUpOrDwTemperature" ->
             Cb_getCoolingUpOrDwTemperature(error, stdout, p)
      [] h = "getCurrentTemperature" -> Cb_getCurrentTemperature(error, stdout, p)
      [] h = "getRotationSpeed" -> Cb_getRotationSpeed(error, stdout, p)
      [] h = "getActive" -> Cb_getActive(error, stdout, p)
      [] h = "getCurrentHeaterCoolerState" ->
             Cb_getCurrentHeaterCoolerState(error, stdout, p)
      [] h = "setCoolingUpOrDwTemperature" ->
             Cb_setCoolingUpOrDwTemperature(arg, error, stdout, p)
      [] OTHER -> Cb_set(error, stdout, p)

\* What no step of the callback variant changes.
cachedLayer == <<deviceIndex, cacheDuration, cache, lastCacheTime, now, dev,
                 gpc, t0, lo, gctx, spc, sid, nGets, nSends, hung, wire, hist,
                 last, reading>>

FreeCallSlot(i) ==
    /\ calls[i].pc = "idle"
    /\ \A j \in Invocations : j < i => calls[j].pc # "idle"

\* HomeKit calls a handler: the handler runs up to its return, with or
\* without a request handed to exec.
Invoke(i) ==
    /\ FreeCallSlot(i)
    /\ \E h \in Handlers : \E arg \in Args(h) :
         /\ calls' = [calls EXCEPT ![i] =
                        [handler |-> h, arg |-> arg,
                         pc |-> IF Issues(h, arg) THEN "awaiting" ELSE "returned",
                         error |-> "", callbacks |-> <<>>]]
         /\ pushed' = PushedAtCall(h, arg, pushed)
    /\ UNCHANGED cachedLayer

\* The child process of a request exits: exec calls the function execRequest
\* wrapped, which calls the function the handler passed.
ExecCallback(i) ==
    /\ calls[i].pc = "awaiting"
    /\ \E r \in ExecResults(calls[i].handler) :
         LET out == Completion(calls[i].handler, calls[i].arg, r.error,
                               r.stdout, pushed) IN
         /\ calls' = [calls EXCEPT ![i].pc = "completed",
                                   ![i].error = r.error,
                                   ![i].callbacks = out.callbacks]
         /\ pushed' = out.pushed
    /\ UNCHANGED cachedLayer

CbNext == \E i \in Invocations : Invoke(i) \/ ExecCallback(i)

CbSpec == Init /\ [][CbNext]_vars

\* Every request handed to exec completes.
CbFairSpec ==
    /\ Init
    /\ [][CbNext]_vars
    /\ \A i \in Invocations : WF_vars(ExecCallback(i))

\* C22 (as claimed): in the callback variant no invocation of a get or set
\* handler calls its completion callback more than once, whatever the
\* request's outcome.
C22_CallbackAtMostOnce ==
    \A i \in Invocations : Len(calls[i].callbacks) <= 1

\* C23 (as claimed): in the callback variant every invoked handler eventually
\* calls its completion callback, given that its request completes, for every
\* value of the registered range and every response of the device.
C23_CallbackEventually ==
    \A i \in Invocations :
        (calls[i].pc # "idle") ~> (Len(calls[i].callbacks) > 0)

\* Steps in which exec's callback of a request without error runs.
RequestSucceeds ==
    \E i \in Invocations :
        /\ calls[i].pc = "awaiting" /\ calls'[i].pc = "completed"
        /\ calls'[i].error = ""

\* C24 (as claimed): the value pushed to CurrentHeaterCoolerState changes
\* only in a step in which a request has succeeded, so after a mode setter
\* whose write failed it is what it was before the setter was invoked.
C24_PushedOnlyOnSuccess ==
    [][pushed' # pushed => RequestSucceeds]_vars

====
